---- MODULE Spec2Model ----
(***************************************************************************)
(* ghostmark: a Vite plugin that splices data-<prefix>-* debug attributes  *)
(* into every JSX opening tag of a file (src/src/index.ts).                *)
(*                                                                         *)
(* Text is modelled as a sequence of units [kind, value]: one unit per     *)
(* character of the original source (kind "src"), one unit per attribute   *)
(* pushed by buildDataAttributes (kind = the facet) and one unit per       *)
(* separating blank (kind "sp").  String values are TLA+ strings built     *)
(* with \o as the template literals of the source build them.              *)
(***************************************************************************)
EXTENDS Integers, Sequences, FiniteSets, TLC

(***************************************************************************)
(* Bounds of the model.                                                    *)
(***************************************************************************)
MaxCalls == 2      \* transform calls made on one plugin instance
MaxElems == 3      \* JSX elements of one structural file
CallElems == 1     \* JSX elements of a file of a run of several calls
MaxKids == 2       \* non-element children of one element
MaxAttrs == 2      \* attributes of one element

(***************************************************************************)
(* JavaScript's undefined / null for the value types that occur.           *)
(***************************************************************************)
Null == "<null>"        \* a string | null that is null
Undefined == -1         \* a number | undefined that is undefined
NoNode == -1            \* currentElement = null

(***************************************************************************)
(* Generic sequence helpers (Array.prototype.join, concatenation).         *)
(***************************************************************************)
RECURSIVE JoinStr(_, _)
JoinStr(strs, sep) ==
  IF strs = <<>> THEN ""
  ELSE IF Len(strs) = 1 THEN strs[1]
  ELSE strs[1] \o sep \o JoinStr(Tail(strs), sep)

SeqsUpTo(S, n) == UNION { [1..m -> S] : m \in 0..n }

RECURSIVE Flatten(_)
Flatten(seqs) ==
  IF seqs = <<>> THEN <<>> ELSE Head(seqs) \o Flatten(Tail(seqs))

(***************************************************************************)
(* index.ts:145-169                                                        *)
(***************************************************************************)
THREE_D_ELEMENTS ==
  { "mesh", "group", "scene", "object3D",
    "geometry", "bufferGeometry", "boxGeometry", "sphereGeometry",
    "planeGeometry", "cylinderGeometry", "coneGeometry", "torusGeometry",
    "circleGeometry", "ringGeometry", "tubeGeometry", "extrudeGeometry",
    "material", "meshBasicMaterial", "meshStandardMaterial",
    "meshPhysicalMaterial", "meshLambertMaterial", "meshPhongMaterial",
    "shaderMaterial", "lineBasicMaterial", "pointsMaterial",
    "ambientLight", "directionalLight", "pointLight", "spotLight",
    "hemisphereLight", "rectAreaLight",
    "perspectiveCamera", "orthographicCamera",
    "OrbitControls", "PerspectiveCamera", "OrthographicCamera",
    "Stars", "Sky", "Environment", "ContactShadows", "BakeShadows",
    "SoftShadows", "AccumulativeShadows", "RandomizedLight",
    "Box", "Sphere", "Plane", "Cylinder", "Cone", "Torus", "Circle",
    "Text", "Text3D", "MeshReflectorMaterial", "MeshWobbleMaterial",
    "MeshDistortMaterial", "Float", "Stage", "Lightformer",
    "SpotLight", "PointLight", "DirectionalLight", "AmbientLight" }

is3DElement(elementName) == elementName \in THREE_D_ELEMENTS

(***************************************************************************)
(* extractElementName, index.ts:182-191.  jsxNode.name is                  *)
(* [type, name, object, property, end]; a missing object or property name  *)
(* is Null and reads as ''.                                                *)
(***************************************************************************)
OrEmpty(s) == IF s = Null THEN "" ELSE s

extractElementName(jsxNode) ==
  IF jsxNode.name.type = "JSXIdentifier" THEN jsxNode.name.name
  ELSE IF jsxNode.name.type = "JSXMemberExpression"
       THEN OrEmpty(jsxNode.name.object) \o "." \o OrEmpty(jsxNode.name.property)
  ELSE Null

(***************************************************************************)
(* shouldSkipElement, index.ts:297-314.  !elementName holds of null and    *)
(* of the empty string.                                                    *)
(***************************************************************************)
Falsy(s) == s = Null \/ s = ""

(* shouldSkipElement without the 3D filter of index.ts:309-311. *)
shouldSkipElementNo3D(elementName, options) ==
  IF Falsy(elementName) THEN TRUE
  ELSE IF elementName = "Fragment" \/ elementName = "React.Fragment" THEN TRUE
  ELSE FALSE

shouldSkipElement(elementName, options) ==
  IF Falsy(elementName) THEN TRUE
  ELSE IF elementName = "Fragment" \/ elementName = "React.Fragment" THEN TRUE
  ELSE IF options.filter3DElements /\ is3DElement(elementName) THEN TRUE
  ELSE FALSE

(***************************************************************************)
(* String.prototype.trim on the strings of the model: the two strings      *)
(* below are the only ones with leading or trailing white space.           *)
(***************************************************************************)
Trim(s) ==
  CASE s = "  " -> ""
    [] s = " hi " -> "hi"
    [] OTHER -> s

(***************************************************************************)
(* extractElementAttributes, index.ts:193-211.  ast maps node ids to       *)
(* nodes; an attribute's value is a node id or NoNode.  The result is a    *)
(* function from attribute names to strings.                               *)
(***************************************************************************)
AttrSet(acc, attrName, v) ==
  [n \in (DOMAIN acc) \cup {attrName} |-> IF n = attrName THEN v ELSE acc[n]]

AttrStep(ast, acc, a) ==
  LET attr == ast[a] IN
  IF attr.type # "JSXAttribute" THEN acc
  ELSE IF Falsy(attr.name) THEN acc
  ELSE IF attr.value # NoNode /\ ast[attr.value].type = "StringLiteral"
       THEN AttrSet(acc, attr.name, ast[attr.value].value)
  ELSE IF /\ attr.value # NoNode
          /\ ast[attr.value].type = "JSXExpressionContainer"
          /\ ast[ast[attr.value].expression].type = "StringLiteral"
       THEN AttrSet(acc, attr.name, ast[ast[attr.value].expression].value)
  ELSE acc

RECURSIVE ReduceAttributes(_, _, _)
ReduceAttributes(ast, attributes, acc) ==
  IF attributes = <<>> THEN acc
  ELSE ReduceAttributes(ast, Tail(attributes), AttrStep(ast, acc, Head(attributes)))

extractElementAttributes(ast, attributes) ==
  ReduceAttributes(ast, attributes, [n \in {} |-> ""])

(***************************************************************************)
(* extractTextContent, index.ts:213-230.  element is a node id or NoNode.  *)
(***************************************************************************)
ChildText(ast, c) ==
  LET child == ast[c] IN
  IF child.type = "JSXText" THEN Trim(child.value)
  ELSE IF /\ child.type = "JSXExpressionContainer"
          /\ ast[child.expression].type = "StringLiteral"
       THEN ast[child.expression].value
  ELSE ""

extractTextContent(ast, element) ==
  IF element = NoNode THEN ""
  ELSE LET children == ast[element].children
           mapped == [i \in 1..Len(children) |-> ChildText(ast, children[i])]
           filtered == SelectSeq(mapped, LAMBDA s : s # "")
       IN Trim(JoinStr(filtered, " "))

(***************************************************************************)
(* buildContentObject, index.ts:232-249.  The object is the sequence of    *)
(* its <<key, value>> properties in insertion order.                       *)
(***************************************************************************)
Truthy(attributes, key) == key \in DOMAIN attributes /\ attributes[key] # ""

buildContentObject(textContent, attributes) ==
  (IF textContent # "" THEN << <<"text", textContent>> >> ELSE <<>>)
  \o (IF Truthy(attributes, "placeholder")
      THEN << <<"placeholder", attributes["placeholder"]>> >> ELSE <<>>)
  \o (IF Truthy(attributes, "className")
      THEN << <<"className", attributes["className"]>> >> ELSE <<>>)

(***************************************************************************)
(* encodeURIComponent(JSON.stringify(content)), index.ts:287.  The string  *)
(* values of the model are the literals below joined by single blanks;     *)
(* of their characters only the blank is percent-encoded.  The JSON        *)
(* punctuation { } " : , always is.                                        *)
(***************************************************************************)
Literals ==
  {"Click me", "hi", "lit", "Name", "btn"}
  \cup { "t" \o ToString(e) : e \in 1..MaxElems }

EncodeLiteral(w) == IF w = "Click me" THEN "Click%20me" ELSE w

EncodeValue(s) ==
  LET parts == CHOOSE ws \in SeqsUpTo(Literals, MaxKids) : JoinStr(ws, " ") = s
  IN JoinStr([i \in 1..Len(parts) |-> EncodeLiteral(parts[i])], "%20")

EncodeProperty(p) ==
  "%22" \o p[1] \o "%22%3A%22" \o EncodeValue(p[2]) \o "%22"

EncodeContent(content) ==
  "%7B"
  \o JoinStr([i \in 1..Len(content) |-> EncodeProperty(content[i])], "%2C")
  \o "%7D"

(***************************************************************************)
(* buildDataAttributes, index.ts:251-292.  Each pushed attribute is one    *)
(* text unit; join(' ') and the leading blank put one "sp" unit before     *)
(* each of them.  The empty string is the empty sequence.                  *)
(***************************************************************************)
Sp == [kind |-> "sp", value |-> " "]

Attr(tagPrefix, facet, value) ==
  [kind |-> facet,
   value |-> "data-" \o tagPrefix \o "-" \o facet \o "=\"" \o value \o "\""]

(* buildDataAttributes with the path pushed before the name. *)
buildDataAttributesPathFirst(options, data) ==
  LET tagPrefix == options.tagPrefix
      componentId == data.filePath \o ":" \o ToString(data.line)
                       \o ":" \o ToString(data.col)
      attributes ==
        (IF options.includeId
         THEN <<Attr(tagPrefix, "id", componentId)>> ELSE <<>>)
        \o (IF options.includePath
            THEN <<Attr(tagPrefix, "path", data.filePath)>> ELSE <<>>)
        \o (IF options.includeName
            THEN <<Attr(tagPrefix, "name", data.elementName)>> ELSE <<>>)
        \o (IF options.includeLine
            THEN <<Attr(tagPrefix, "line", ToString(data.line))>> ELSE <<>>)
        \o (IF options.includeFile
            THEN <<Attr(tagPrefix, "file", data.fileName)>> ELSE <<>>)
        \o (IF options.includeContent /\ Len(data.content) > 0
            THEN <<Attr(tagPrefix, "content", EncodeContent(data.content))>>
            ELSE <<>>)
  IN IF Len(attributes) > 0
     THEN Flatten([i \in 1..Len(attributes) |-> <<Sp, attributes[i]>>])
     ELSE <<>>

(* buildDataAttributes without the Object.keys(...).length > 0 test of     *)
(* index.ts:286.                                                           *)
buildDataAttributesAnyContent(options, data) ==
  LET tagPrefix == options.tagPrefix
      componentId == data.filePath \o ":" \o ToString(data.line)
                       \o ":" \o ToString(data.col)
      attributes ==
        (IF options.includeId
         THEN <<Attr(tagPrefix, "id", componentId)>> ELSE <<>>)
        \o (IF options.includeName
            THEN <<Attr(tagPrefix, "name", data.elementName)>> ELSE <<>>)
        \o (IF options.includePath
            THEN <<Attr(tagPrefix, "path", data.filePath)>> ELSE <<>>)
        \o (IF options.includeLine
            THEN <<Attr(tagPrefix, "line", ToString(data.line))>> ELSE <<>>)
        \o (IF options.includeFile
            THEN <<Attr(tagPrefix, "file", data.fileName)>> ELSE <<>>)
        \o (IF options.includeContent
            THEN <<Attr(tagPrefix, "content", EncodeContent(data.content))>>
            ELSE <<>>)
  IN IF Len(attributes) > 0
     THEN Flatten([i \in 1..Len(attributes) |-> <<Sp, attributes[i]>>])
     ELSE <<>>

buildDataAttributes(options, data) ==
  LET tagPrefix == options.tagPrefix
      componentId == data.filePath \o ":" \o ToString(data.line)
                       \o ":" \o ToString(data.col)
      attributes ==
        (IF options.includeId
         THEN <<Attr(tagPrefix, "id", componentId)>> ELSE <<>>)
        \o (IF options.includeName
            THEN <<Attr(tagPrefix, "name", data.elementName)>> ELSE <<>>)
        \o (IF options.includePath
            THEN <<Attr(tagPrefix, "path", data.filePath)>> ELSE <<>>)
        \o (IF options.includeLine
            THEN <<Attr(tagPrefix, "line", ToString(data.line))>> ELSE <<>>)
        \o (IF options.includeFile
            THEN <<Attr(tagPrefix, "file", data.fileName)>> ELSE <<>>)
        \o (IF options.includeContent /\ Len(data.content) > 0
            THEN <<Attr(tagPrefix, "content", EncodeContent(data.content))>>
            ELSE <<>>)
  IN IF Len(attributes) > 0
     THEN Flatten([i \in 1..Len(attributes) |-> <<Sp, attributes[i]>>])
     ELSE <<>>

(***************************************************************************)
(* getInsertPosition, index.ts:294-295.  typeParameters is <<>> when       *)
(* absent and <<[end |-> k]>> when present.                                *)
(***************************************************************************)
Coalesce(a, b) == IF a # Undefined THEN a ELSE b

(* getInsertPosition with the two offsets tried in the other order. *)
getInsertPositionNameFirst(jsxNode) ==
  LET tpEnd == IF jsxNode.typeParameters = <<>> THEN Undefined
               ELSE jsxNode.typeParameters[1].end
  IN Coalesce(jsxNode.name.end, Coalesce(tpEnd, 0))

getInsertPosition(jsxNode) ==
  LET tpEnd == IF jsxNode.typeParameters = <<>> THEN Undefined
               ELSE jsxNode.typeParameters[1].end
  IN Coalesce(tpEnd, Coalesce(jsxNode.name.end, 0))

(***************************************************************************)
(* path.extname, path.relative(cwd, id), path.basename and                 *)
(* String.prototype.includes on the file ids of the model                  *)
(* (index.ts:320, 328, 382, 383); cwd = "/proj" (index.ts:353).            *)
(***************************************************************************)
PathTable ==
  [id \in {"/proj/src/App.tsx", "/proj/src/util.ts",
           "/proj/node_modules/lib/Btn.jsx"} |->
     CASE id = "/proj/src/App.tsx" ->
            [ext |-> ".tsx", relative |-> "src/App.tsx", base |-> "App.tsx",
             substrings |-> {"src", "App"}]
       [] id = "/proj/src/util.ts" ->
            [ext |-> ".ts", relative |-> "src/util.ts", base |-> "util.ts",
             substrings |-> {"src", "util"}]
       [] id = "/proj/node_modules/lib/Btn.jsx" ->
            [ext |-> ".jsx", relative |-> "node_modules/lib/Btn.jsx",
             base |-> "Btn.jsx", substrings |-> {"node_modules", "lib", "Btn"}]]

(***************************************************************************)
(* shouldProcessFile, index.ts:316-329.                                    *)
(***************************************************************************)
shouldProcessFile(filePath, options) ==
  LET ext == PathTable[filePath].ext IN
  IF ext \notin options.include THEN FALSE
  ELSE ~ \E excludePath \in options.exclude :
           excludePath \in PathTable[filePath].substrings

(***************************************************************************)
(* resolvedOptions, index.ts:338-351: the six facet toggles and            *)
(* filter3DElements are the caller's; the rest are the defaults.           *)
(***************************************************************************)
ResolvedOptions(facets, filter3D) ==
  [includeId |-> "id" \in facets,
   includeName |-> "name" \in facets,
   includePath |-> "path" \in facets,
   includeLine |-> "line" \in facets,
   includeFile |-> "file" \in facets,
   includeContent |-> "content" \in facets,
   tagPrefix |-> "gm",
   include |-> {".jsx", ".tsx"},
   exclude |-> {"node_modules"},
   useRelativePath |-> TRUE,
   debug |-> FALSE,
   filter3DElements |-> filter3D]

Facets == {"id", "name", "path", "line", "file", "content"}

(***************************************************************************)
(* The source files handed to transform.  A file is described by its id,   *)
(* whether @babel/parser accepts it, and its JSX elements in the order     *)
(* 1..n: element e hangs under element parent (0: top level of the         *)
(* module), either among its children (slot "child") or inside the value   *)
(* of one of its attributes (slot "attr"); tag is the form of its opening  *)
(* tag, kids its non-element children and attrs its own attributes.        *)
(*                                                                         *)
(* The last tag form is the node shape that the `?? 0` of                  *)
(* getInsertPosition provides for: a name that carries no end offset.      *)
(* @babel/parser puts an end on every node it builds, so this form stands  *)
(* for a node that reaches the handler from elsewhere; the handler runs    *)
(* the same code on it.                                                    *)
(***************************************************************************)
TagForms ==
  << [type |-> "JSXIdentifier", name |-> "div", object |-> Null,
      property |-> Null, tp |-> FALSE, end |-> TRUE],
     [type |-> "JSXIdentifier", name |-> "Button", object |-> Null,
      property |-> Null, tp |-> TRUE, end |-> TRUE],
     [type |-> "JSXIdentifier", name |-> "mesh", object |-> Null,
      property |-> Null, tp |-> FALSE, end |-> TRUE],
     [type |-> "JSXIdentifier", name |-> "Text", object |-> Null,
      property |-> Null, tp |-> TRUE, end |-> TRUE],
     [type |-> "JSXIdentifier", name |-> "Fragment", object |-> Null,
      property |-> Null, tp |-> FALSE, end |-> TRUE],
     [type |-> "JSXMemberExpression", name |-> Null, object |-> "React",
      property |-> "Fragment", tp |-> FALSE, end |-> TRUE],
     [type |-> "JSXNamespacedName", name |-> Null, object |-> Null,
      property |-> Null, tp |-> FALSE, end |-> TRUE],
     [type |-> "JSXMemberExpression", name |-> Null, object |-> "Foo",
      property |-> "Bar", tp |-> FALSE, end |-> FALSE] >>

KidKinds ==
  { [k |-> "text", v |-> "Click me"], [k |-> "text", v |-> "  "],
    [k |-> "text", v |-> " hi "], [k |-> "lit", v |-> "lit"],
    [k |-> "lit", v |-> ""], [k |-> "dyn", v |-> ""] }

AttrKinds ==
  { [k |-> "lit", n |-> "placeholder", v |-> "Name"],
    [k |-> "lit", n |-> "placeholder", v |-> ""],
    [k |-> "exprlit", n |-> "className", v |-> "btn"],
    [k |-> "dyn", n |-> "className", v |-> ""],
    [k |-> "bool", n |-> "placeholder", v |-> ""],
    [k |-> "lit", n |-> "title", v |-> "Name"],
    [k |-> "spread", n |-> "", v |-> ""] }

(***************************************************************************)
(* parse, index.ts:388-391: the tree @babel/parser returns for a file, as  *)
(* a function from node ids to nodes.  Node 0 stands for the File/Program  *)
(* and every non-JSX ancestor; element e owns the ids 100*e .. 100*e+99.   *)
(* Offsets: the opening tags lie in the text in document order, each       *)
(* taking TagWidth characters: '<' and the name (name.end = start + 2),    *)
(* then the type-parameter list when there is one (end = start + 3).       *)
(***************************************************************************)
TagWidth == 4

ElemId(e) == 100 * e
OpenId(e) == 100 * e + 1
CloseId(e) == 100 * e + 2
KidId(e, j) == 100 * e + 10 + 2 * j
KidExprId(e, j) == 100 * e + 11 + 2 * j
AttrId(e, j) == 100 * e + 40 + 3 * j
AttrValueId(e, j) == 100 * e + 41 + 3 * j
AttrExprId(e, j) == 100 * e + 42 + 3 * j
SlotAttrId(e) == 100 * e + 90
SlotValueId(e) == 100 * e + 91

ElemsUnder(file, p, slot) ==
  SelectSeq([e \in 1..Len(file.elems) |-> e],
            LAMBDA e : file.elems[e].parent = p /\ file.elems[e].slot = slot)

RECURSIVE DocOrder(_, _)
DocOrder(file, e) ==
  LET inAttrs == ElemsUnder(file, e, "attr")
      inChildren == ElemsUnder(file, e, "child")
  IN (IF e = 0 THEN <<>> ELSE <<e>>)
     \o Flatten([i \in 1..Len(inAttrs) |-> DocOrder(file, inAttrs[i])])
     \o Flatten([i \in 1..Len(inChildren) |-> DocOrder(file, inChildren[i])])

Rank(file, e) ==
  LET order == DocOrder(file, 0)
  IN CHOOSE r \in 1..Len(order) : order[r] = e

StartOf(file, e) == TagWidth * (Rank(file, e) - 1)

CodeLength(file) == TagWidth * Len(file.elems) + 1

(* The original source text: one unit per character. *)
CodeOf(file) ==
  [i \in 1..CodeLength(file) |-> [kind |-> "src", value |-> ToString(i)]]

ElementNode(file, e) ==
  LET el == file.elems[e]
      kids == [j \in 1..Len(el.kids) |-> KidId(e, j)]
      inner == ElemsUnder(file, e, "child")
      children ==
        (IF kids = <<>> THEN <<>> ELSE <<Head(kids)>>)
        \o [i \in 1..Len(inner) |-> ElemId(inner[i])]
        \o (IF kids = <<>> THEN <<>> ELSE Tail(kids))
  IN [type |-> "JSXElement",
      start |-> StartOf(file, e),
      openingElement |-> OpenId(e),
      closingElement |-> IF children = <<>> THEN NoNode ELSE CloseId(e),
      children |-> children]

OpeningNode(file, e) ==
  LET el == file.elems[e]
      form == el.tag
      nested == ElemsUnder(file, e, "attr")
  IN [type |-> "JSXOpeningElement",
      start |-> StartOf(file, e),
      name |-> [type |-> form.type, name |-> form.name,
                object |-> form.object, property |-> form.property,
                end |-> IF form.end THEN StartOf(file, e) + 2 ELSE Undefined],
      typeParameters |-> IF form.tp THEN <<[end |-> StartOf(file, e) + 3]>>
                         ELSE <<>>,
      loc |-> [line |-> Rank(file, e), column |-> StartOf(file, e)],
      attributes |-> [j \in 1..Len(el.attrs) |-> AttrId(e, j)]
                     \o [i \in 1..Len(nested) |-> SlotAttrId(nested[i])]]

KidNode(kid, exprId) ==
  IF kid.k = "text" THEN [type |-> "JSXText", value |-> kid.v]
  ELSE [type |-> "JSXExpressionContainer", expression |-> exprId]

KidExprNode(kid) ==
  IF kid.k = "lit" THEN [type |-> "StringLiteral", value |-> kid.v]
  ELSE [type |-> "Identifier"]

AttrNode(attr, valueId) ==
  IF attr.k = "spread" THEN [type |-> "JSXSpreadAttribute"]
  ELSE [type |-> "JSXAttribute", name |-> attr.n,
        value |-> IF attr.k = "bool" THEN NoNode ELSE valueId]

AttrValueNode(attr, exprId) ==
  IF attr.k = "lit" THEN [type |-> "StringLiteral", value |-> attr.v]
  ELSE [type |-> "JSXExpressionContainer", expression |-> exprId]

AttrExprNode(attr) ==
  IF attr.k = "exprlit" THEN [type |-> "StringLiteral", value |-> attr.v]
  ELSE [type |-> "Identifier"]

NodeIds(file) ==
  {0}
  \cup UNION { {ElemId(e), OpenId(e)}
               \cup (IF ElementNode(file, e).closingElement = NoNode
                     THEN {} ELSE {CloseId(e)})
               \cup (IF file.elems[e].slot = "attr"
                     THEN {SlotAttrId(e), SlotValueId(e)} ELSE {})
               \cup UNION { {KidId(e, j)}
                            \cup (IF file.elems[e].kids[j].k = "text"
                                  THEN {} ELSE {KidExprId(e, j)})
                            : j \in 1..Len(file.elems[e].kids) }
               \cup UNION { {AttrId(e, j)}
                            \cup (IF file.elems[e].attrs[j].k \in {"lit", "exprlit", "dyn"}
                                  THEN {AttrValueId(e, j)} ELSE {})
                            \cup (IF file.elems[e].attrs[j].k \in {"exprlit", "dyn"}
                                  THEN {AttrExprId(e, j)} ELSE {})
                            : j \in 1..Len(file.elems[e].attrs) }
               : e \in 1..Len(file.elems) }

NodeAt(file, id) ==
  LET e == id \div 100
      r == id % 100
  IN CASE id = 0 ->
            LET top == ElemsUnder(file, 0, "child")
            IN [type |-> "Program",
                body |-> [i \in 1..Len(top) |-> ElemId(top[i])]]
       [] id # 0 /\ r = 0 -> ElementNode(file, e)
       [] r = 1 -> OpeningNode(file, e)
       [] r = 2 -> [type |-> "JSXClosingElement"]
       [] r = 90 -> [type |-> "JSXAttribute", name |-> "icon",
                     value |-> SlotValueId(e)]
       [] r = 91 -> [type |-> "JSXExpressionContainer",
                     expression |-> ElemId(e)]
       [] r >= 10 /\ r < 40 /\ r % 2 = 0 ->
            KidNode(file.elems[e].kids[(r - 10) \div 2], id + 1)
       [] r >= 10 /\ r < 40 /\ r % 2 = 1 ->
            KidExprNode(file.elems[e].kids[(r - 11) \div 2])
       [] r >= 40 /\ r < 90 /\ (r - 40) % 3 = 0 ->
            AttrNode(file.elems[e].attrs[(r - 40) \div 3], id + 1)
       [] r >= 40 /\ r < 90 /\ (r - 40) % 3 = 1 ->
            AttrValueNode(file.elems[e].attrs[(r - 41) \div 3], id + 1)
       [] r >= 40 /\ r < 90 /\ (r - 40) % 3 = 2 ->
            AttrExprNode(file.elems[e].attrs[(r - 42) \div 3])

parse(file) == [id \in NodeIds(file) |-> NodeAt(file, id)]

(***************************************************************************)
(* The child nodes estree-walker visits after a node, in the order of the  *)
(* node's keys as @babel/parser sets them (index.ts:399): a JSXElement's   *)
(* openingElement, closingElement, children; an opening element's          *)
(* attributes (its name and type-parameter nodes hold no JSX element and   *)
(* are of no type the enter handler looks at).                             *)
(***************************************************************************)
Opt(id) == IF id = NoNode THEN <<>> ELSE <<id>>

WalkKeys(node) ==
  CASE node.type = "Program" -> node.body
    [] node.type = "JSXElement" ->
         <<node.openingElement>> \o Opt(node.closingElement) \o node.children
    [] node.type = "JSXOpeningElement" -> node.attributes
    [] node.type = "JSXAttribute" -> Opt(node.value)
    [] node.type = "JSXExpressionContainer" -> <<node.expression>>
    [] OTHER -> <<>>

(***************************************************************************)
(* magic-string as transform uses it (index.ts:393, 435, 454).  The buffer *)
(* is the original text cut into chunks [start, end) that each carry an    *)
(* intro and an outro, plus the intro of the whole string.                 *)
(*   appendLeft(index, content): _split(index), then append content to the *)
(*   outro of the chunk that ends at index, or to the string's intro when  *)
(*   no chunk ends there.                                                  *)
(*   toString(): intro, then each chunk's intro, original text and outro.  *)
(***************************************************************************)
NewMagicString(code) ==
  [original |-> code,
   intro |-> <<>>,
   chunks |-> << [start |-> 0, end |-> Len(code), intro |-> <<>>, outro |-> <<>>] >>]

SplitChunk(chunk, index) ==
  IF chunk.start < index /\ index < chunk.end
  THEN << [start |-> chunk.start, end |-> index,
           intro |-> chunk.intro, outro |-> <<>>],
          [start |-> index, end |-> chunk.end,
           intro |-> <<>>, outro |-> chunk.outro] >>
  ELSE <<chunk>>

Split(ms, index) ==
  [ms EXCEPT !.chunks =
     Flatten([i \in 1..Len(ms.chunks) |-> SplitChunk(ms.chunks[i], index)])]

(* appendLeft without the _split(index) before it. *)
appendLeftNoSplit(ms, index, content) ==
  IF \E i \in 1..Len(ms.chunks) : ms.chunks[i].end = index
  THEN [ms EXCEPT !.chunks =
          [i \in 1..Len(ms.chunks) |->
             IF ms.chunks[i].end = index
             THEN [ms.chunks[i] EXCEPT !.outro = @ \o content]
             ELSE ms.chunks[i]]]
  ELSE [ms EXCEPT !.intro = @ \o content]

appendLeft(ms, index, content) ==
  LET split == Split(ms, index)
  IN IF \E i \in 1..Len(split.chunks) : split.chunks[i].end = index
     THEN [split EXCEPT !.chunks =
             [i \in 1..Len(split.chunks) |->
                IF split.chunks[i].end = index
                THEN [split.chunks[i] EXCEPT !.outro = @ \o content]
                ELSE split.chunks[i]]]
     ELSE [split EXCEPT !.intro = @ \o content]

toString(ms) ==
  ms.intro
  \o Flatten([i \in 1..Len(ms.chunks) |->
                ms.chunks[i].intro
                \o SubSeq(ms.original, ms.chunks[i].start + 1, ms.chunks[i].end)
                \o ms.chunks[i].outro])

(***************************************************************************)
(* State.                                                                  *)
(*   resolvedOptions, stats: the plugin instance (index.ts:338-359).       *)
(*   pc, file: where each transform call stands and the file it was given. *)
(*   ast .. changedElementsCount: the locals of the call that is walking   *)
(*     (index.ts:388-395); todo is the walker's agenda: the nodes it has   *)
(*     still to enter and the elements it has still to leave.              *)
(*   insertions: the appendLeft calls made so far, in order.               *)
(*   enclosing: the JSXElements the walker has entered and not yet left,   *)
(*     innermost last (the walker's recursion).                            *)
(*   result: what the call that returned last returned.                    *)
(*   tally: what each call did, kept after its locals are gone: the        *)
(*     appendLeft calls of its walk, the tags it skipped with a resolved   *)
(*     name, and whether another call stood at its await when it began.    *)
(***************************************************************************)
VARIABLES resolvedOptions, stats, pc, file,
          ast, todo, currentElement, changedElementsCount, magicString,
          insertions, enclosing, result, tally

vars == <<resolvedOptions, stats, pc, file,
          ast, todo, currentElement, changedElementsCount, magicString,
          insertions, enclosing, result, tally>>

walkLocals == <<ast, todo, currentElement, changedElementsCount, magicString,
                insertions, enclosing>>

Calls == 1..MaxCalls

NoFile == [id |-> "", ok |-> FALSE, elems |-> <<>>]

NoResult == [call |-> 0, value |-> "none", code |-> <<>>]

(***************************************************************************)
(* ghostmark(options), index.ts:337-359.                                   *)
(***************************************************************************)
InitOf(optionSet) ==
  /\ resolvedOptions \in optionSet
  /\ stats = [totalFiles |-> 0, processedFiles |-> 0,
              totalElements |-> 0, skippedElements |-> 0]
  /\ pc = [c \in Calls |-> "idle"]
  /\ file = [c \in Calls |-> NoFile]
  /\ ast = <<>>
  /\ todo = <<>>
  /\ currentElement = NoNode
  /\ changedElementsCount = 0
  /\ magicString = NewMagicString(<<>>)
  /\ insertions = <<>>
  /\ enclosing = <<>>
  /\ result = NoResult
  /\ tally = [c \in Calls |-> [tagged |-> 0, skipped |-> 0,
                                overlapped |-> FALSE]]

(***************************************************************************)
(* transform, index.ts:375-397: the synchronous part of a call up to its   *)
(* await.  An excluded file returns null at once; a file the parser        *)
(* rejects is caught at index.ts:457-461.  Calls are numbered in the order  *)
(* the host makes them.  The host does not wait for a call to return       *)
(* before it makes the next, so a call may begin while others stand at     *)
(* their await; it cannot begin while another call is walking, since the   *)
(* walk of index.ts:399-447 runs to its end without yielding.              *)
(***************************************************************************)
TransformStart(c, files) ==
  /\ pc[c] = "idle"
  /\ \A d \in Calls : d < c => pc[d] # "idle"
  /\ \A d \in Calls : pc[d] # "walk"
  /\ tally' = [tally EXCEPT ![c].overlapped = \E d \in Calls : pc[d] = "await"]
  /\ \E f \in files :
       IF ~shouldProcessFile(f.id, resolvedOptions)
       THEN /\ pc' = [pc EXCEPT ![c] = "returned"]
            /\ file' = [file EXCEPT ![c] = f]
            /\ result' = [call |-> c, value |-> "null", code |-> <<>>]
            /\ UNCHANGED stats
       ELSE IF ~f.ok
       THEN /\ stats' = [stats EXCEPT !.totalFiles = @ + 1,
                                      !.processedFiles = @ + 1]
            /\ pc' = [pc EXCEPT ![c] = "returned"]
            /\ file' = [file EXCEPT ![c] = f]
            /\ result' = [call |-> c, value |-> "null", code |-> <<>>]
       ELSE /\ stats' = [stats EXCEPT !.totalFiles = @ + 1]
            /\ pc' = [pc EXCEPT ![c] = "await"]
            /\ file' = [file EXCEPT ![c] = f]
            /\ UNCHANGED result
  /\ UNCHANGED <<resolvedOptions, walkLocals>>

(***************************************************************************)
(* The call resumes after `await import('estree-walker')` (index.ts:397)   *)
(* with the locals of index.ts:388-395 and starts the walk at the root.    *)
(***************************************************************************)
Resume(c) ==
  /\ pc[c] = "await"
  /\ \A d \in Calls : pc[d] # "walk"
  /\ pc' = [pc EXCEPT ![c] = "walk"]
  /\ ast' = parse(file[c])
  /\ magicString' = NewMagicString(CodeOf(file[c]))
  /\ changedElementsCount' = 0
  /\ currentElement' = NoNode
  /\ todo' = << [op |-> "enter", id |-> 0] >>
  /\ insertions' = <<>>
  /\ enclosing' = <<>>
  /\ UNCHANGED <<resolvedOptions, stats, file, result, tally>>

(***************************************************************************)
(* The enter handler, index.ts:400-443.                                    *)
(***************************************************************************)
(* The enter handler keeping the first element it meets. *)
EnterElementFirstOnly(node, id, current) ==
  IF node.type = "JSXElement" /\ current = NoNode THEN id ELSE current

(* index.ts:401-403 *)
EnterElement(node, id, current) ==
  IF node.type = "JSXElement" THEN id ELSE current

(* index.ts:382-383 *)
FilePathOf(id, options) ==
  IF options.useRelativePath THEN PathTable[id].relative ELSE id

FileNameOf(id) == PathTable[id].base

(* index.ts:417-419: the content object of an opening tag *)
ContentOf(tree, jsxNode, current) ==
  LET elementAttributes == extractElementAttributes(tree, jsxNode.attributes)
      textContent == extractTextContent(tree, current)
  IN buildContentObject(textContent, elementAttributes)

(* index.ts:421-431: the attribute string of an opening tag *)
AttributesOf(options, fileId, jsxNode, elementName, content) ==
  buildDataAttributes(options,
    [elementName |-> elementName,
     filePath |-> FilePathOf(fileId, options),
     fileName |-> FileNameOf(fileId),
     line |-> Coalesce(jsxNode.loc.line, 0),
     col |-> Coalesce(jsxNode.loc.column, 0),
     content |-> content])

(* index.ts:409-415: what a skipped tag does to the statistics *)
CountSkipped(st, elementName) ==
  IF ~Falsy(elementName)
  THEN [st EXCEPT !.skippedElements = @ + 1]
  ELSE st

(* index.ts:433-441: whether the attribute string is spliced in *)
ShouldInsert(attributes) == attributes # <<>>

(* index.ts:405-411: the node is an opening tag that is skipped and whose  *)
(* name was resolved *)
SkipsNamed(node, options) ==
  /\ node.type = "JSXOpeningElement"
  /\ shouldSkipElement(extractElementName(node), options)
  /\ ~Falsy(extractElementName(node))

OpeningElement(c, id, jsxNode, current) ==
  LET elementName == extractElementName(jsxNode) IN
  IF shouldSkipElement(elementName, resolvedOptions)
  THEN /\ stats' = CountSkipped(stats, elementName)
       /\ UNCHANGED <<magicString, insertions, changedElementsCount>>
  ELSE LET content == ContentOf(ast, jsxNode, current)
           attributes == AttributesOf(resolvedOptions, file[c].id, jsxNode,
                                      elementName, content)
           insertPosition == getInsertPosition(jsxNode)
       IN /\ IF ShouldInsert(attributes)
             THEN /\ magicString' = appendLeft(magicString, insertPosition, attributes)
                  /\ insertions' = Append(insertions,
                                     [offset |-> insertPosition,
                                      text |-> attributes,
                                      tag |-> id,
                                      content |-> content])
                  /\ changedElementsCount' = changedElementsCount + 1
             ELSE UNCHANGED <<magicString, insertions, changedElementsCount>>
          /\ UNCHANGED stats

WalkEnter(c) ==
  /\ pc[c] = "walk"
  /\ todo # <<>>
  /\ Head(todo).op = "enter"
  /\ LET id == Head(todo).id
         node == ast[id]
         keys == WalkKeys(node)
         current == EnterElement(node, id, currentElement)
     IN /\ currentElement' = current
        /\ enclosing' = IF node.type = "JSXElement"
                        THEN Append(enclosing, id) ELSE enclosing
        /\ todo' = [i \in 1..Len(keys) |-> [op |-> "enter", id |-> keys[i]]]
                   \o (IF node.type = "JSXElement"
                       THEN << [op |-> "leave", id |-> id] >> ELSE <<>>)
                   \o Tail(todo)
        /\ IF node.type = "JSXOpeningElement"
           THEN OpeningElement(c, id, node, current)
           ELSE UNCHANGED <<stats, magicString, insertions, changedElementsCount>>
        /\ tally' = [tally EXCEPT
                       ![c].tagged = Len(insertions'),
                       ![c].skipped = @ + (IF SkipsNamed(node, resolvedOptions)
                                           THEN 1 ELSE 0)]
  /\ UNCHANGED <<resolvedOptions, pc, file, ast, result>>

(***************************************************************************)
(* The walker leaves a JSXElement whose subtree it has walked.  walk is    *)
(* given no leave handler (index.ts:399-444): nothing of transform's       *)
(* state changes.                                                          *)
(***************************************************************************)
WalkLeave(c) ==
  /\ pc[c] = "walk"
  /\ todo # <<>>
  /\ Head(todo).op = "leave"
  /\ todo' = Tail(todo)
  /\ enclosing' = SubSeq(enclosing, 1, Len(enclosing) - 1)
  /\ UNCHANGED <<resolvedOptions, stats, pc, file, ast, currentElement,
                 changedElementsCount, magicString, insertions, result, tally>>

(***************************************************************************)
(* index.ts:446-456: the walk is over.                                     *)
(***************************************************************************)
(* The return storing the call's own count over the shared counter. *)
ReturnOverwrite(c) ==
  /\ pc[c] = "walk"
  /\ todo = <<>>
  /\ stats' = [stats EXCEPT !.processedFiles = @ + 1,
                            !.totalElements = changedElementsCount]
  /\ result' = [call |-> c, value |-> "code", code |-> toString(magicString)]
  /\ pc' = [pc EXCEPT ![c] = "returned"]
  /\ UNCHANGED <<resolvedOptions, file, walkLocals, tally>>

Return(c) ==
  /\ pc[c] = "walk"
  /\ todo = <<>>
  /\ stats' = [stats EXCEPT !.processedFiles = @ + 1,
                            !.totalElements = @ + changedElementsCount]
  /\ result' = [call |-> c, value |-> "code", code |-> toString(magicString)]
  /\ pc' = [pc EXCEPT ![c] = "returned"]
  /\ UNCHANGED <<resolvedOptions, file, walkLocals, tally>>

NextOf(files, limit) ==
  \E c \in 1..limit :
    \/ TransformStart(c, files)
    \/ Resume(c)
    \/ WalkEnter(c)
    \/ WalkLeave(c)
    \/ Return(c)

(***************************************************************************)
(* Files and configurations.                                               *)
(***************************************************************************)
AllOptions == { ResolvedOptions(fs, f3) : fs \in SUBSET Facets, f3 \in BOOLEAN }

WalkOptions ==
  { ResolvedOptions(fs, f3) :
      fs \in {Facets, {}, {"content"}, {"name", "line"}}, f3 \in BOOLEAN }

(* Every tree of m elements, each with a text child of its own; the tag    *)
(* forms are dealt to the elements in turn, starting at form v.            *)
Shapes(m) ==
  { s \in [1..m -> [parent : 0..(m - 1), slot : {"child", "attr"}]] :
      \A e \in 1..m : /\ s[e].parent < e
                      /\ s[e].parent = 0 => s[e].slot = "child" }

StructFile(s, v) ==
  [id |-> "/proj/src/App.tsx", ok |-> TRUE,
   elems |-> [e \in 1..Len(s) |->
                [parent |-> s[e].parent, slot |-> s[e].slot,
                 tag |-> TagForms[((v + e) % Len(TagForms)) + 1],
                 kids |-> << [k |-> "text", v |-> "t" \o ToString(e)] >>,
                 attrs |-> <<>>]]]

StructFiles(n) ==
  { StructFile(s, v) : s \in UNION { Shapes(m) : m \in 1..n },
                       v \in 1..Len(TagForms) }

BrokenFile == [id |-> "/proj/src/App.tsx", ok |-> FALSE, elems |-> <<>>]

ExcludedFiles ==
  { [id |-> i, ok |-> TRUE, elems |-> <<>>] :
      i \in {"/proj/src/util.ts", "/proj/node_modules/lib/Btn.jsx"} }

CallFiles == StructFiles(CallElems) \cup {BrokenFile} \cup ExcludedFiles

Init == InitOf(WalkOptions)

Next == NextOf(CallFiles, MaxCalls)

Spec == Init /\ [][Next]_vars

(* One call on a fresh plugin instance, over every structural file. *)
WalkFiles == StructFiles(MaxElems)

NextWalk == NextOf(WalkFiles, 1)

SpecWalk == Init /\ [][NextWalk]_vars

(* One element with any children and attributes of its own.  The files    *)
(* with up to MaxKids children carry at most one attribute, those with up  *)
(* to MaxAttrs attributes at most one child.                               *)
ContentFile(form, kids, attrs) ==
  [id |-> "/proj/src/App.tsx", ok |-> TRUE,
   elems |-> << [parent |-> 0, slot |-> "child", tag |-> TagForms[form],
                 kids |-> kids, attrs |-> attrs] >>]

ContentFiles ==
  { ContentFile(1, ks, as) :
      ks \in SeqsUpTo(KidKinds, MaxKids), as \in SeqsUpTo(AttrKinds, 1) }
  \cup
  { ContentFile(1, ks, as) :
      ks \in SeqsUpTo(KidKinds, 1), as \in SeqsUpTo(AttrKinds, MaxAttrs) }

ContentOptions ==
  { ResolvedOptions(fs, TRUE) :
      fs \in {Facets, {"content"}, Facets \ {"content"}} }

InitContent == InitOf(ContentOptions)

NextContent == NextOf(ContentFiles, 1)

SpecContent == InitContent /\ [][NextContent]_vars

(* Every subset of the facet toggles, over one-element files with and      *)
(* without content.                                                        *)
FacetFiles ==
  StructFiles(CallElems)
  \cup { ContentFile(1, ks, as) :
           ks \in SeqsUpTo(KidKinds, 1), as \in SeqsUpTo(AttrKinds, 1) }

InitFacets == InitOf(AllOptions)

NextFacets == NextOf(FacetFiles, 1)

SpecFacets == InitFacets /\ [][NextFacets]_vars

(* Overlapping calls on one plugin instance.  Every file that is walked    *)
(* is <a>ta<b>tb</b></a>, its two tags taken from two tag forms in a row,  *)
(* so that one walk both tags and skips; besides these, the file the       *)
(* parser rejects and the excluded files.                                  *)
PairShape ==
  << [parent |-> 0, slot |-> "child"], [parent |-> 1, slot |-> "child"] >>

OverlapFiles ==
  { StructFile(PairShape, v) : v \in 1..Len(TagForms) }
  \cup {BrokenFile} \cup ExcludedFiles

OverlapOptions ==
  { ResolvedOptions(fs, f3) : fs \in {Facets, {}}, f3 \in BOOLEAN }

InitOverlap == InitOf(OverlapOptions)

NextOverlap == NextOf(OverlapFiles, MaxCalls)

SpecOverlap == InitOverlap /\ [][NextOverlap]_vars

(***************************************************************************)
(* Vocabulary of the properties.                                           *)
(***************************************************************************)
Walking == \E c \in Calls : pc[c] = "walk"

Walked == \E c \in Calls : pc[c] = "returned" /\ result.call = c
                           /\ result.value = "code"

(* The walker is about to enter an opening tag; Tag is that tag. *)
AtOpeningTag ==
  /\ Walking
  /\ todo # <<>>
  /\ Head(todo).op = "enter"
  /\ ast[Head(todo).id].type = "JSXOpeningElement"

Tag == ast[Head(todo).id]

(* The step enters the node at the head of the agenda. *)
EntersHead == todo' # todo

OpeningTags == { id \in DOMAIN ast : ast[id].type = "JSXOpeningElement" }

IsFragmentName(name) == name = "Fragment" \/ name = "React.Fragment"

InsertionsOf(id) ==
  { i \in 1..Len(insertions) : insertions[i].tag = id }

(***************************************************************************)
(* C1: entering an opening tag whose resolved name is Fragment or          *)
(* React.Fragment registers no insertion and leaves stats.skippedElements  *)
(* unchanged, under any configuration.                                     *)
(***************************************************************************)
C1_FragmentTransparent ==
  [][ (AtOpeningTag /\ IsFragmentName(extractElementName(Tag)) /\ EntersHead)
      => /\ insertions' = insertions
         /\ magicString' = magicString
         /\ stats'.skippedElements = stats.skippedElements ]_vars

(***************************************************************************)
(* C2: a transform call on a non-excluded file whose parsing fails         *)
(* registers no insertion, returns null, raises totalFiles by one and      *)
(* leaves processedFiles unchanged.                                        *)
(***************************************************************************)
ParseFails(c) ==
  /\ pc[c] = "idle"
  /\ pc'[c] # "idle"
  /\ shouldProcessFile(file'[c].id, resolvedOptions)
  /\ ~file'[c].ok

C2_ParseFailureNotProcessed ==
  [][ \A c \in Calls :
        ParseFails(c)
        => /\ pc'[c] = "returned"
           /\ result' = [call |-> c, value |-> "null", code |-> <<>>]
           /\ insertions' = insertions
           /\ stats'.totalFiles = stats.totalFiles + 1
           /\ stats'.processedFiles = stats.processedFiles ]_vars

(***************************************************************************)
(* C3: with filter3DElements = true, entering an opening tag whose name    *)
(* is in the 3D element set registers no insertion and raises              *)
(* stats.skippedElements by exactly one.                                   *)
(***************************************************************************)
Is3DTag(id) ==
  LET name == ast[id].name
  IN name.type = "JSXIdentifier" /\ name.name \in THREE_D_ELEMENTS

C3_ThreeDSkippedOnce ==
  [][ (AtOpeningTag /\ resolvedOptions.filter3DElements
         /\ Is3DTag(Head(todo).id) /\ EntersHead)
      => /\ insertions' = insertions
         /\ magicString' = magicString
         /\ changedElementsCount' = changedElementsCount
         /\ stats'.skippedElements = stats.skippedElements + 1 ]_vars

C3_Witness ==
  /\ Walked
  /\ resolvedOptions.filter3DElements
  /\ resolvedOptions.includeName
  /\ Cardinality({ id \in OpeningTags : Is3DTag(id) }) = 2
  /\ stats.skippedElements = 2
  /\ Len(insertions) = 1
  /\ \A id \in OpeningTags : Is3DTag(id) => InsertionsOf(id) = {}

(***************************************************************************)
(* C4: the insertion offset of an opening tag is the end offset K of its   *)
(* type-parameter list when it has one (K > N, never the name-end offset   *)
(* N), and is N when it has none.                                          *)
(***************************************************************************)
C4_OffsetCorrect ==
  \A i \in 1..Len(insertions) :
    LET jsxNode == ast[insertions[i].tag]
        N == jsxNode.name.end
    IN IF jsxNode.typeParameters # <<>>
       THEN LET K == jsxNode.typeParameters[1].end
            IN /\ insertions[i].offset = K
               /\ N # Undefined => (K > N /\ insertions[i].offset # N)
       ELSE N # Undefined => insertions[i].offset = N

C4_Witness ==
  /\ Walked
  /\ \E i, j \in 1..Len(insertions) :
       /\ ast[insertions[i].tag].typeParameters # <<>>
       /\ insertions[i].offset = ast[insertions[i].tag].name.end + 1
       /\ ast[insertions[j].tag].typeParameters = <<>>
       /\ insertions[j].offset = ast[insertions[j].tag].name.end
       /\ insertions[j].offset > 0

(***************************************************************************)
(* C5: an opening tag with neither a type-parameter end offset nor a name  *)
(* end offset, for which the offset resolver yields 0, is a no-op: no      *)
(* insertion is registered for it and the output text is the same as       *)
(* without it.                                                             *)
(***************************************************************************)
NoOffset(id) ==
  ast[id].typeParameters = <<>> /\ ast[id].name.end = Undefined

FacetOrder == <<"id", "name", "path", "line", "file", "content">>

FacetIndex(f) == CHOOSE i \in 1..Len(FacetOrder) : FacetOrder[i] = f

FacetOn(f) ==
  CASE f = "id" -> resolvedOptions.includeId
    [] f = "name" -> resolvedOptions.includeName
    [] f = "path" -> resolvedOptions.includePath
    [] f = "line" -> resolvedOptions.includeLine
    [] f = "file" -> resolvedOptions.includeFile
    [] f = "content" -> resolvedOptions.includeContent

KindsOf(text) ==
  LET attributes == SelectSeq(text, LAMBDA u : u.kind # "sp")
  IN [i \in 1..Len(attributes) |-> attributes[i].kind]

C6_FacetOrderFixed ==
  \A i \in 1..Len(insertions) :
    LET kinds == KindsOf(insertions[i].text)
    IN /\ \A a, b \in 1..Len(kinds) :
            a < b => FacetIndex(kinds[a]) < FacetIndex(kinds[b])
       /\ \A a \in 1..Len(kinds) : FacetOn(kinds[a])
       /\ \A f \in Facets \ {"content"} :
            FacetOn(f) => \E a \in 1..Len(kinds) : kinds[a] = f

C6_Witness ==
  /\ Walked
  /\ \E i \in 1..Len(insertions) :
       KindsOf(insertions[i].text) = <<"name", "line", "content">>

(***************************************************************************)
(* C7: the text of an annotated tag's content snapshot is the text of the  *)
(* children of the element that this tag opens, whatever was visited       *)
(* before it.                                                              *)
(***************************************************************************)
ElementOf(tagId) ==
  CHOOSE el \in DOMAIN ast :
    ast[el].type = "JSXElement" /\ ast[el].openingElement = tagId

SnapshotText(content) ==
  IF \E k \in 1..Len(content) : content[k][1] = "text"
  THEN content[CHOOSE k \in 1..Len(content) : content[k][1] = "text"][2]
  ELSE ""

C7_SnapshotOfOwnElement ==
  \A i \in 1..Len(insertions) :
    SnapshotText(insertions[i].content)
      = extractTextContent(ast, ElementOf(insertions[i].tag))

(* Two annotated siblings with children of their own under an annotated    *)
(* parent, all three with different texts.                                 *)
C7_Witness ==
  /\ Walked
  /\ Len(insertions) = 3
  /\ \E p, a, b \in DOMAIN ast :
       /\ ast[p].type = "JSXElement"
       /\ a # b
       /\ \E x, y \in 1..Len(ast[p].children) :
            x < y /\ ast[p].children[x] = a /\ ast[p].children[y] = b
       /\ ast[a].type = "JSXElement" /\ ast[b].type = "JSXElement"
       /\ \E i \in 1..Len(insertions) :
            /\ insertions[i].tag = ast[b].openingElement
            /\ SnapshotText(insertions[i].content) # ""
            /\ SnapshotText(insertions[i].content) # extractTextContent(ast, a)
            /\ SnapshotText(insertions[i].content) # extractTextContent(ast, p)

(***************************************************************************)
(* C8: an element with no literal text child (no non-blank text child, no  *)
(* string literal in an expression container) and no literal-valued        *)
(* placeholder or className attribute gets no content attribute, also      *)
(* with includeContent = true.                                             *)
(***************************************************************************)
Blank(v) == v = "" \/ v = "  "

LiteralValued(a) ==
  /\ ast[a].value # NoNode
  /\ \/ ast[ast[a].value].type = "StringLiteral"
     \/ /\ ast[ast[a].value].type = "JSXExpressionContainer"
        /\ ast[ast[ast[a].value].expression].type = "StringLiteral"

NoLiteralText(el) ==
  \A k \in 1..Len(ast[el].children) :
    LET child == ast[ast[el].children[k]]
    IN /\ child.type = "JSXText" => Blank(child.value)
       /\ child.type = "JSXExpressionContainer"
            => ast[child.expression].type # "StringLiteral"

NoLiteralAttribute(tagId) ==
  \A k \in 1..Len(ast[tagId].attributes) :
    LET a == ast[tagId].attributes[k]
    IN (ast[a].type = "JSXAttribute" /\ ast[a].name \in {"placeholder", "className"})
         => ~LiteralValued(a)

HasContentAttribute(text) == \E k \in 1..Len(text) : text[k].kind = "content"

C8_NoContentWithoutLiterals ==
  \A i \in 1..Len(insertions) :
    (NoLiteralText(ElementOf(insertions[i].tag))
       /\ NoLiteralAttribute(insertions[i].tag))
    => ~HasContentAttribute(insertions[i].text)

C8_Witness ==
  /\ Walked
  /\ resolvedOptions.includeContent
  /\ \E i \in 1..Len(insertions) :
       LET tagId == insertions[i].tag
       IN /\ NoLiteralText(ElementOf(tagId))
          /\ NoLiteralAttribute(tagId)
          /\ Len(ast[ElementOf(tagId)].children) = 1
          /\ Len(ast[tagId].attributes) = 2
          /\ \E k \in 1..2 : /\ ast[ast[tagId].attributes[k]].type = "JSXAttribute"
                             /\ ast[ast[tagId].attributes[k]].name = "className"
          /\ \E k \in 1..2 : /\ ast[ast[tagId].attributes[k]].type = "JSXAttribute"
                             /\ ast[ast[tagId].attributes[k]].name = "title"
                             /\ LiteralValued(ast[tagId].attributes[k])
          /\ ~HasContentAttribute(insertions[i].text)
          /\ Len(insertions[i].text) > 0

(***************************************************************************)
(* C9: the text of the buffer is the original text with each inserted      *)
(* string at its registered offset, in the order of registration: every    *)
(* original character is there, in order, and deleting the inserted        *)
(* strings gives the original back.                                        *)
(***************************************************************************)
InsertedAt(offset) ==
  LET here == SelectSeq(insertions, LAMBDA ins : ins.offset = offset)
  IN Flatten([k \in 1..Len(here) |-> here[k].text])

Spliced(code) ==
  Flatten([k \in 1..(Len(code) + 1) |->
             InsertedAt(k - 1) \o (IF k <= Len(code) THEN <<code[k]>> ELSE <<>>)])

C9_PurelyAdditive ==
  (Walking \/ Walked) =>
    LET code == magicString.original
        out == toString(magicString)
    IN /\ SelectSeq(out, LAMBDA u : u.kind = "src") = code
       /\ out = Spliced(code)
       /\ Len(out) = Len(code) + Len(Flatten([k \in 1..Len(insertions) |->
                                                insertions[k].text]))
       /\ Walked => result.code = out

C9_Witness ==
  /\ Walked
  /\ Len(insertions) = 3
  /\ \E i, j \in 1..3 :
       /\ i < j
       /\ 0 < insertions[i].offset
       /\ insertions[i].offset < insertions[j].offset
       /\ ast[insertions[j].tag].typeParameters # <<>>
  /\ Len(result.code) > Len(magicString.original) + 3

(***************************************************************************)
(* C10: the current enclosing element is idle (null) before any element    *)
(* is entered, is e once element e is entered, and is again the element    *)
(* that encloses e (or idle) once the walk has left e's subtree.           *)
(***************************************************************************)
C10_ContextReverts ==
  Walking =>
    currentElement = IF enclosing = <<>> THEN NoNode
                     ELSE enclosing[Len(enclosing)]

(***************************************************************************)
(* C11: when transform calls on one plugin instance overlap at their       *)
(* awaits, no counter update is lost.  In every state processedFiles is at *)
(* most totalFiles; and once every call that was made has returned,        *)
(* totalFiles is the number of calls on non-excluded files, totalElements  *)
(* the sum over the files walked to the end of the insertions registered   *)
(* for each, and skippedElements the sum of the tags skipped with a        *)
(* resolved name.                                                          *)
(***************************************************************************)
RECURSIVE SumTo(_, _)
SumTo(f, n) == IF n = 0 THEN 0 ELSE f[n] + SumTo(f, n - 1)

Counted(c) ==
  pc[c] # "idle" /\ shouldProcessFile(file[c].id, resolvedOptions)

WalkedToEnd(c) == pc[c] = "returned" /\ Counted(c) /\ file[c].ok

NoCallInFlight == \A c \in Calls : pc[c] \in {"idle", "returned"}

C11_NoLostUpdate ==
  /\ stats.processedFiles <= stats.totalFiles
  /\ NoCallInFlight =>
       /\ stats.totalFiles = Cardinality({ c \in Calls : Counted(c) })
       /\ stats.totalElements =
            SumTo([c \in Calls |-> IF WalkedToEnd(c) THEN tally[c].tagged ELSE 0],
                  MaxCalls)
       /\ stats.skippedElements =
            SumTo([c \in Calls |-> tally[c].skipped], MaxCalls)

(* Every call has returned, each after a walk that tagged and skipped, and *)
(* a call began while another stood at its await.                          *)
C11_Witness ==
  /\ \A c \in Calls : /\ WalkedToEnd(c)
                      /\ tally[c].tagged >= 1
                      /\ tally[c].skipped >= 1
  /\ \E c \in Calls : tally[c].overlapped
  /\ stats.totalElements >= MaxCalls
  /\ stats.skippedElements >= MaxCalls

====
